---- MODULE Spec2Model ----
(***************************************************************************)
(* Madison, WI monthly expense estimator (src/data.py, src/app.py).        *)
(*                                                                         *)
(* The Streamlit script src/app.py is executed top to bottom on every      *)
(* "run".  A run is modelled as the sequence of steps                      *)
(*   start -> sidebar -> compute -> map_rows -> map_event -> idle | start  *)
(* and the user acts on the widgets only between runs (pc = "idle").       *)
(*                                                                         *)
(* Money is an integer number of dollars; the Python floats of the income  *)
(* computation are exact rationals [num, den]; scale factors are kept in   *)
(* hundredths (1.22 is 122 over Scale).                                    *)
(***************************************************************************)
EXTENDS Integers, Sequences, FiniteSets, TLC

(***************************************************************************)
(* Bounds of the explored input domain (not program constants).            *)
(***************************************************************************)
\* parking slider positions explored from the low end: 0, 10, .., 10*MaxParkingSteps
MaxParkingSteps == 1
\* dining-out frequencies explored from the low end: 0 .. MaxDining
MaxDining == 1
\* healthcare slider positions explored from the low end
MaxHealthcareSteps == 1
\* other-entertainment slider positions explored from the low end
MaxOtherSteps == 1

(***************************************************************************)
(* Reference data: src/data.py                                             *)
(***************************************************************************)
None == "<None>"
Absent == "<absent>"

SPENDING_STYLE_INDEX == [Frugal |-> 0, Moderate |-> 1, Comfortable |-> 2]

\* list(NEIGHBORHOODS.keys()): dict insertion order
NbhdOrder ==
  << "Downtown / Capitol Square", "Near East Side", "Willy Street / Marquette",
     "Isthmus / Broom St", "University Ave / Campus Area", "Middleton", "Monona" >>

NEIGHBORHOODS ==
  [ n \in {NbhdOrder[i] : i \in 1..Len(NbhdOrder)} |->
      CASE n = "Downtown / Capitol Square" ->
             ("parking_monthly" :> 150 @@ "studio" :> <<950, 1150, 1400>>
              @@ "1BR" :> <<1200, 1500, 1900>> @@ "2BR" :> <<1700, 2100, 2600>>)
        [] n = "Near East Side" ->
             ("parking_monthly" :> 50 @@ "studio" :> <<850, 1000, 1250>>
              @@ "1BR" :> <<1050, 1300, 1600>> @@ "2BR" :> <<1400, 1700, 2100>>)
        [] n = "Willy Street / Marquette" ->
             ("parking_monthly" :> 50 @@ "studio" :> <<850, 1000, 1200>>
              @@ "1BR" :> <<1000, 1250, 1550>> @@ "2BR" :> <<1350, 1650, 2000>>)
        [] n = "Isthmus / Broom St" ->
             ("parking_monthly" :> 100 @@ "studio" :> <<900, 1100, 1350>>
              @@ "1BR" :> <<1100, 1400, 1750>> @@ "2BR" :> <<1500, 1900, 2350>>)
        [] n = "University Ave / Campus Area" ->
             ("parking_monthly" :> 120 @@ "studio" :> <<800, 950, 1150>>
              @@ "1BR" :> <<950, 1200, 1450>> @@ "2BR" :> <<1300, 1600, 1950>>)
        [] n = "Middleton" ->
             ("parking_monthly" :> 0 @@ "studio" :> <<800, 950, 1150>>
              @@ "1BR" :> <<1000, 1200, 1500>> @@ "2BR" :> <<1300, 1600, 2000>>)
        [] n = "Monona" ->
             ("parking_monthly" :> 0 @@ "studio" :> <<750, 900, 1100>>
              @@ "1BR" :> <<950, 1150, 1400>> @@ "2BR" :> <<1250, 1500, 1850>>) ]

TRANSPORT ==
  ( "Metro Bus (monthly pass)" :> [monthly_fixed |-> 52, monthly_variable |-> 0]
 @@ "Own Car" :> [monthly_fixed |-> 0, monthly_variable |-> 0]
 @@ "Bike / Walk" :> [monthly_fixed |-> 10, monthly_variable |-> 0]
 @@ "Hybrid (Bus + occasional rideshare)" :> [monthly_fixed |-> 52, monthly_variable |-> 60] )

\* list(TRANSPORT.keys())[0]: the selectbox default
TransportDefault == "Metro Bus (monthly pass)"

CAR_COSTS == [gas_monthly |-> 80, insurance_monthly |-> 105, maintenance_monthly |-> 60]

UTILITIES == [electric_gas_avg |-> 100, internet |-> 65, renters_insurance |-> 15]

FOOD ==
  [ groceries |-> [frugal |-> 200, moderate |-> 320, comfortable |-> 450],
    dining_out_cost_per_meal |-> [frugal |-> 12, moderate |-> 25, comfortable |-> 45],
    coffee |-> [frugal |-> 20, moderate |-> 50, comfortable |-> 90] ]

LIFESTYLE ==
  [ gym |-> ( "None" :> 0 @@ "Planet Fitness" :> 25 @@ "UW SERF (non-student)" :> 35
           @@ "Madison YMCA" :> 52 @@ "Anytime Fitness" :> 40 @@ "Boutique Studio" :> 120 ),
    streaming |-> ( "Netflix" :> 17 @@ "Spotify" :> 11 @@ "Hulu" :> 18 @@ "Max (HBO)" :> 16
                 @@ "Disney+" :> 14 @@ "YouTube Premium" :> 14 @@ "Apple TV+" :> 10
                 @@ "Amazon Prime" :> 15 ),
    entertainment_misc |-> [frugal |-> 30, moderate |-> 80, comfortable |-> 175],
    personal_care |-> [frugal |-> 30, moderate |-> 60, comfortable |-> 100],
    clothing |-> [frugal |-> 20, moderate |-> 60, comfortable |-> 130] ]

(***************************************************************************)
(* Arithmetic helpers                                                      *)
(***************************************************************************)
\* denominator of the scale factors: 0.80 is 80/Scale, 1.0 is 100/Scale
Scale == 100

\* dict.get(key, default)
Get(d, k, default) == IF k \in DOMAIN d THEN d[k] ELSE default

\* Python round(x) of the non-negative rational num/den: nearest integer, ties to even
round(num, den) ==
  LET q == num \div den
      r == num % den
  IN  IF 2 * r < den THEN q
      ELSE IF 2 * r > den THEN q + 1
      ELSE IF q % 2 = 0 THEN q ELSE q + 1

RECURSIVE SumOver(_, _)
\* sum(f[k] for k in S)
SumOver(f, S) ==
  IF S = {} THEN 0
  ELSE LET k == CHOOSE x \in S : TRUE IN f[k] + SumOver(f, S \ {k})

RECURSIVE GCD(_, _)
GCD(a, b) == IF b = 0 THEN a ELSE GCD(b, a % b)

\* the rational n/d in lowest terms, d > 0
Q(n, d) ==
  LET g == GCD(IF n < 0 THEN -n ELSE n, d)
  IN  IF g = 0 THEN [num |-> 0, den |-> 1] ELSE [num |-> n \div g, den |-> d \div g]

QAdd(x, y) == Q(x.num * y.den + y.num * x.den, x.den * y.den)
QSub(x, y) == Q(x.num * y.den - y.num * x.den, x.den * y.den)
QMul(x, y) == Q(x.num * y.num, x.den * y.den)
\* x / y for y > 0
QDiv(x, y) == Q(x.num * y.den, x.den * y.num)
QLess(x, y) ==
  LET g == GCD(x.den, y.den)
  IN  x.num * (y.den \div g) < y.num * (x.den \div g)

(***************************************************************************)
(* Calculation engine: src/app.py lines 89-138                             *)
(***************************************************************************)
StyleKeys == <<"frugal", "moderate", "comfortable">>

Categories ==
  { "Rent", "Utilities", "Transportation", "Parking", "Groceries", "Dining Out",
    "Coffee / Cafes", "Healthcare", "Gym / Fitness", "Streaming", "Entertainment",
    "Other Entertainment", "Personal Care", "Clothing" }

\* {"studio": 0.80, "1BR": 1.0, "2BR": 1.22}, in hundredths
unit_energy_factor == ("studio" :> 80 @@ "1BR" :> 100 @@ "2BR" :> 122)

\* nbhd_data.get("utility_factor", 1.0) in hundredths
utility_factor(nbhd_data) == Get(nbhd_data, "utility_factor", Scale)

\* nbhd_data.get("grocery_factor", 1.0) in hundredths
grocery_factor(nbhd_data) == Get(nbhd_data, "grocery_factor", Scale)

\* variant: the unit energy factor scales the whole utilities sum
utilities_cost_scaled_sum(nbhd_data, unit) ==
  round( ( UTILITIES.electric_gas_avg * utility_factor(nbhd_data)
             + (UTILITIES.internet + UTILITIES.renters_insurance) * Scale )
           * unit_energy_factor[unit],
         Scale * Scale )

\* round(electric_gas_avg * utility_factor * unit_energy_factor + internet + renters_insurance)
utilities_cost(nbhd_data, unit) ==
  round( UTILITIES.electric_gas_avg * utility_factor(nbhd_data) * unit_energy_factor[unit]
           + (UTILITIES.internet + UTILITIES.renters_insurance) * Scale * Scale,
         Scale * Scale )

\* variant: "Own Car" read from the TRANSPORT table like every other mode
transport_cost_table_only(transport) ==
  TRANSPORT[transport].monthly_fixed + TRANSPORT[transport].monthly_variable

transport_cost(transport) ==
  LET t == TRANSPORT[transport]
  IN  IF transport = "Own Car"
      THEN CAR_COSTS.gas_monthly + CAR_COSTS.insurance_monthly + CAR_COSTS.maintenance_monthly
      ELSE t.monthly_fixed + t.monthly_variable

\* variant: the costs are collected in a set before being summed
streaming_cost_distinct(streaming) ==
  LET costs == {LIFESTYLE.streaming[s] : s \in streaming}
  IN  SumOver([c \in costs |-> c], costs)

streaming_cost(streaming) == SumOver(LIFESTYLE.streaming, streaming)

\* variant: the style tuple indexed from the wrong end
rent_cost_reversed(nbhd_data, unit, style) == nbhd_data[unit][3 - style]

\* line 98
rent_cost(nbhd_data, unit, style) == nbhd_data[unit][style + 1]

\* variant: the neighbourhood's parking_monthly folded into the cost of "Own Car"
compute_expenses_car_parking(nbhd, unit, style, transport, dining, gym, streaming, health, park, other) ==
  LET style_key == StyleKeys[style + 1]
      nbhd_data == NEIGHBORHOODS[nbhd]
  IN  ( "Rent" :> nbhd_data[unit][style + 1]
     @@ "Utilities" :> utilities_cost(nbhd_data, unit)
     @@ "Transportation" :> ( transport_cost(transport)
                              + IF transport = "Own Car" THEN nbhd_data["parking_monthly"] ELSE 0 )
     @@ "Parking" :> park
     @@ "Groceries" :> round(FOOD.groceries[style_key] * grocery_factor(nbhd_data), Scale)
     @@ "Dining Out" :> dining * FOOD.dining_out_cost_per_meal[style_key]
     @@ "Coffee / Cafes" :> FOOD.coffee[style_key]
     @@ "Healthcare" :> health
     @@ "Gym / Fitness" :> LIFESTYLE.gym[gym]
     @@ "Streaming" :> streaming_cost(streaming)
     @@ "Entertainment" :> LIFESTYLE.entertainment_misc[style_key]
     @@ "Other Entertainment" :> other
     @@ "Personal Care" :> LIFESTYLE.personal_care[style_key]
     @@ "Clothing" :> LIFESTYLE.clothing[style_key] )

compute_expenses(nbhd, unit, style, transport, dining, gym, streaming, health, park, other) ==
  LET style_key == StyleKeys[style + 1]
      nbhd_data == NEIGHBORHOODS[nbhd]
  IN  ( "Rent" :> rent_cost(nbhd_data, unit, style)
     @@ "Utilities" :> utilities_cost(nbhd_data, unit)
     @@ "Transportation" :> transport_cost(transport)
     @@ "Parking" :> park
     @@ "Groceries" :> round(FOOD.groceries[style_key] * grocery_factor(nbhd_data), Scale)
     @@ "Dining Out" :> dining * FOOD.dining_out_cost_per_meal[style_key]
     @@ "Coffee / Cafes" :> FOOD.coffee[style_key]
     @@ "Healthcare" :> health
     @@ "Gym / Fitness" :> LIFESTYLE.gym[gym]
     @@ "Streaming" :> streaming_cost(streaming)
     @@ "Entertainment" :> LIFESTYLE.entertainment_misc[style_key]
     @@ "Other Entertainment" :> other
     @@ "Personal Care" :> LIFESTYLE.personal_care[style_key]
     @@ "Clothing" :> LIFESTYLE.clothing[style_key] )

\* variant: Rent is not filtered out
non_rent_total_all(e) == SumOver(e, DOMAIN e)

\* sum(v for k, v in expenses.items() if k != "Rent")
non_rent_total(e) == SumOver(e, DOMAIN e \ {"Rent"})

\* variant: a category is left out of the total
sum_values_partial(e) == SumOver(e, DOMAIN e \ {"Parking"})

\* sum(expenses.values())
sum_values(e) == SumOver(e, DOMAIN e)

(***************************************************************************)
(* Required income: src/app.py lines 239-245                               *)
(***************************************************************************)
\* variant: the net amount is multiplied by (1 - rate) instead of divided
required_income_multiplied(total, cash_savings, retirement, rate) ==
  LET monthly_cash_savings == Q(cash_savings, 12)
      monthly_retirement == Q(retirement, 12)
      net == QAdd(Q(total, 1), monthly_cash_savings)
      taxable_gross_monthly == QMul(net, QSub(Q(1, 1), Q(rate, 100)))
      gross_monthly == QAdd(taxable_gross_monthly, monthly_retirement)
  IN  [ net_needed |-> net,
        required_gross_monthly |-> gross_monthly,
        required_gross_annual |-> QMul(gross_monthly, Q(12, 1)) ]

\* variant: the annual figure is twelve times the monthly figure rounded to the cent
required_income_rounded_monthly(total, cash_savings, retirement, rate) ==
  LET monthly_cash_savings == Q(cash_savings, 12)
      monthly_retirement == Q(retirement, 12)
      net == QAdd(Q(total, 1), monthly_cash_savings)
      taxable_gross_monthly == QDiv(net, QSub(Q(1, 1), Q(rate, 100)))
      gross_monthly == QAdd(taxable_gross_monthly, monthly_retirement)
      monthly_cents == round(gross_monthly.num * 100, gross_monthly.den)
  IN  [ net_needed |-> net,
        required_gross_monthly |-> gross_monthly,
        required_gross_annual |-> QMul(Q(monthly_cents, 100), Q(12, 1)) ]

required_income(total, cash_savings, retirement, rate) ==
  LET monthly_cash_savings == Q(cash_savings, 12)
      monthly_retirement == Q(retirement, 12)
      net == QAdd(Q(total, 1), monthly_cash_savings)
      taxable_gross_monthly == QDiv(net, QSub(Q(1, 1), Q(rate, 100)))
      gross_monthly == QAdd(taxable_gross_monthly, monthly_retirement)
  IN  [ net_needed |-> net,
        required_gross_monthly |-> gross_monthly,
        required_gross_annual |-> QMul(gross_monthly, Q(12, 1)) ]

(***************************************************************************)
(* Sidebar widgets: src/app.py lines 149-222                               *)
(***************************************************************************)
\* _HIDDEN
HIDDEN == {"Allied / Dunn's Marsh"}

\* _nbhd_opts = [n for n in NEIGHBORHOODS if n not in _HIDDEN]
nbhd_opts == SelectSeq(NbhdOrder, LAMBDA n : n \notin HIDDEN)

OptSet == {nbhd_opts[i] : i \in 1..Len(nbhd_opts)}

\* list.index(x), 0-based; x must occur in seq
IndexOf(seq, x) == (CHOOSE i \in 1..Len(seq) : seq[i] = x) - 1

UnitTypes == {"studio", "1BR", "2BR"}
StyleIdxs == {SPENDING_STYLE_INDEX[k] : k \in DOMAIN SPENDING_STYLE_INDEX}
\* slider step of the parking, healthcare and other-entertainment sliders
SliderStep == 10
ParkingMax == 250
DiningMax == 20
DiningDefault == 4
HealthcareMax == 800
HealthcareDefault == 150
OtherMax == 300
SavingsOptions == {0, 5000, 10000, 15000, 20000, 25000, 30000}
SavingsStep == 5000
SavingsMax == 30000
CashSavingsDefault == 5000
TaxMin == 15
TaxMax == 30
TaxDefault == 20

\* the widget values of a fresh session (each widget's default)
Defaults ==
  [ nbhd |-> NbhdOrder[1], unit |-> "1BR", style |-> SPENDING_STYLE_INDEX["Moderate"],
    transport |-> TransportDefault, parking |-> 0, dining |-> DiningDefault,
    healthcare |-> HealthcareDefault, gym |-> "None", streaming |-> {"Netflix", "Spotify"},
    other |-> 0, cash |-> CashSavingsDefault, retirement |-> 0, tax |-> TaxDefault ]

VARIABLES
  ss_neighborhood,      \* st.session_state.neighborhood (Absent before line 76)
  ss_map_click,         \* st.session_state._map_click (Absent before line 78)
  sb_index,             \* index= the selectbox widget was last registered with (-1: never)
  sb_value,             \* value held by that selectbox widget
  map_selection,        \* event.selection.points[0]["location"] of the map widget, or None
  fig_nbhd,             \* selected neighbourhood drawn in the map figure last rendered
  pc,                   \* position of the script
  neighborhood, unit_type, style_idx, transport_choice, parking, dining_out_frequency,
  healthcare, gym_choice, streaming_choices, other_entertainment,
  annual_cash_savings, annual_retirement, tax_rate,
  expenses, total_monthly, total_annual, income,
  map_rows,
  last_choice,          \* history: neighbourhood chosen by the user's most recent action
  recorded              \* history: click stored by the map handler of the previous run

session == <<ss_neighborhood, ss_map_click>>
widgets == <<sb_index, sb_value, map_selection, fig_nbhd>>
inputs == <<unit_type, style_idx, transport_choice, parking, dining_out_frequency,
            healthcare, gym_choice, streaming_choices, other_entertainment,
            annual_cash_savings, annual_retirement, tax_rate>>
results == <<expenses, total_monthly, total_annual, income>>
history == <<last_choice, recorded>>
vars == <<session, widgets, pc, neighborhood, inputs, results, map_rows, history>>

NoResults ==
  /\ expenses = <<>>
  /\ total_monthly = 0
  /\ total_annual = 0
  /\ income = required_income(0, 0, 0, 0)
  /\ map_rows = <<>>

WidgetValues(a) ==
  /\ unit_type = a.unit
  /\ style_idx = a.style
  /\ transport_choice = a.transport
  /\ parking = a.parking
  /\ dining_out_frequency = a.dining
  /\ healthcare = a.healthcare
  /\ gym_choice = a.gym
  /\ streaming_choices = a.streaming
  /\ other_entertainment = a.other
  /\ annual_cash_savings = a.cash
  /\ annual_retirement = a.retirement
  /\ tax_rate = a.tax

\* a fresh session: nothing in st.session_state, no widget registered, the script about to run
Init ==
  /\ ss_neighborhood = Absent
  /\ ss_map_click = Absent
  /\ sb_index = -1
  /\ sb_value = Absent
  /\ map_selection = None
  /\ fig_nbhd = Absent
  /\ pc = "start"
  /\ neighborhood = Absent
  /\ WidgetValues(Defaults)
  /\ NoResults
  /\ last_choice = None
  /\ recorded = None

(***************************************************************************)
(* One run of the script                                                   *)
(***************************************************************************)
\* variant: the pending click is applied but _map_click is not reset (line 83 missing)
SessionInit_click_kept ==
  /\ pc = "start"
  /\ LET nb0 == IF ss_neighborhood = Absent THEN NbhdOrder[1] ELSE ss_neighborhood
         mc0 == IF ss_map_click = Absent THEN None ELSE ss_map_click
     IN  /\ ss_neighborhood' = IF mc0 # None THEN mc0 ELSE nb0
         /\ ss_map_click' = mc0
  /\ pc' = "sidebar"
  /\ UNCHANGED <<widgets, neighborhood, inputs, results, map_rows, history>>

\* lines 75-83: default the session state, then apply a pending map click
SessionInit ==
  /\ pc = "start"
  /\ LET nb0 == IF ss_neighborhood = Absent THEN NbhdOrder[1] ELSE ss_neighborhood
         mc0 == IF ss_map_click = Absent THEN None ELSE ss_map_click
     IN  /\ ss_neighborhood' = IF mc0 # None THEN mc0 ELSE nb0
         /\ ss_map_click' = None
  /\ pc' = "sidebar"
  /\ UNCHANGED <<widgets, neighborhood, inputs, results, map_rows, history>>

\* st.selectbox(options, index): the widget is identified by its arguments, so a call
\* whose index differs from the one it was last registered with is a new widget showing
\* options[index]; otherwise it returns the value it holds
selectbox(options, index) ==
  IF index # sb_index THEN options[index + 1] ELSE sb_value

\* lines 149-222: the selector is rendered and session_state.neighborhood synced to it;
\* the other widgets keep their arguments and return the values they hold
Sidebar ==
  /\ pc = "sidebar"
  /\ IF ss_neighborhood \notin OptSet
     THEN \* _nbhd_opts.index raises ValueError
          /\ pc' = "error"
          /\ UNCHANGED <<session, widgets, neighborhood>>
     ELSE LET index == IndexOf(nbhd_opts, ss_neighborhood)
              chosen == selectbox(nbhd_opts, index)
          IN  /\ neighborhood' = chosen
              /\ ss_neighborhood' = chosen
              /\ sb_index' = index
              /\ sb_value' = chosen
              /\ pc' = "compute"
              /\ UNCHANGED <<ss_map_click, map_selection, fig_nbhd>>
  /\ UNCHANGED <<inputs, results, map_rows, history>>

\* lines 230-245
Compute ==
  /\ pc = "compute"
  /\ expenses' = compute_expenses(neighborhood, unit_type, style_idx, transport_choice,
                                  dining_out_frequency, gym_choice, streaming_choices,
                                  healthcare, parking, other_entertainment)
  /\ total_monthly' = sum_values(expenses')
  /\ total_annual' = total_monthly' * 12
  /\ income' = required_income(total_monthly', annual_cash_savings, annual_retirement, tax_rate)
  /\ pc' = "map_rows"
  /\ UNCHANGED <<session, widgets, neighborhood, inputs, map_rows, history>>

\* lines 338-350: one row of the comparison
map_row(nbhd_name, other_costs) ==
  LET nbhd_data == NEIGHBORHOODS[nbhd_name]
      rent == nbhd_data[unit_type][style_idx + 1]
      estimated_total == rent + other_costs + Get(nbhd_data, "non_rent_adj", 0)
  IN  [ rent |-> rent, non_rent |-> estimated_total - rent, total |-> estimated_total ]

\* lines 334-352
BuildMapRows ==
  /\ pc = "map_rows"
  /\ LET other_costs == non_rent_total(expenses)
     IN  map_rows' = [n \in DOMAIN NEIGHBORHOODS \ HIDDEN |-> map_row(n, other_costs)]
  /\ pc' = "map_event"
  /\ UNCHANGED <<session, widgets, neighborhood, inputs, results, history>>

\* What st.plotly_chart(key="nbhd_map", on_select="rerun") reports.  The selection is
\* widget state kept under the key; when the figure differs from the one the selection
\* was made on, the library either keeps it under the key or starts the chart afresh.
reported_selections ==
  IF neighborhood = fig_nbhd THEN {map_selection} ELSE {map_selection, None}

\* lines 398-407
MapEvent ==
  /\ pc = "map_event"
  /\ \E clicked \in reported_selections :
       /\ map_selection' = clicked
       /\ fig_nbhd' = neighborhood
       /\ IF clicked # None /\ clicked \in DOMAIN NEIGHBORHOODS /\ clicked # ss_neighborhood
          THEN /\ ss_map_click' = clicked
               /\ recorded' = clicked
               /\ pc' = "start"          \* st.rerun()
          ELSE /\ recorded' = None
               /\ pc' = "idle"
               /\ UNCHANGED ss_map_click
  /\ UNCHANGED <<ss_neighborhood, sb_index, sb_value, neighborhood, inputs, results,
                 map_rows, last_choice>>

(***************************************************************************)
(* The user, between runs                                                  *)
(***************************************************************************)
\* picks another entry in the neighbourhood selector
UserSelect ==
  /\ pc = "idle"
  /\ \E n \in OptSet \ {sb_value} :
       /\ sb_value' = n
       /\ last_choice' = n
  /\ pc' = "start"
  /\ UNCHANGED <<session, sb_index, map_selection, fig_nbhd, neighborhood, inputs,
                 results, map_rows, recorded>>

\* clicks a region of the map
UserMapClick ==
  /\ pc = "idle"
  /\ \E n \in DOMAIN map_rows \ {map_selection} :
       /\ map_selection' = n
       /\ last_choice' = n
  /\ pc' = "start"
  /\ UNCHANGED <<session, sb_index, sb_value, fig_nbhd, neighborhood, inputs,
                 results, map_rows, recorded>>

\* clears the map selection
UserMapDeselect ==
  /\ pc = "idle"
  /\ map_selection # None
  /\ map_selection' = None
  /\ pc' = "start"
  /\ UNCHANGED <<session, sb_index, sb_value, fig_nbhd, neighborhood, inputs,
                 results, map_rows, history>>

Next ==
  \/ SessionInit
  \/ Sidebar
  \/ Compute
  \/ BuildMapRows
  \/ MapEvent
  \/ UserSelect
  \/ UserMapClick
  \/ UserMapDeselect

Spec == Init /\ [][Next]_vars

(***************************************************************************)
(* The calculation alone: one run from the point where the widgets have    *)
(* been read (line 230), for widget values drawn from the input domain.    *)
(***************************************************************************)
ParkingValues == {SliderStep * k : k \in 0..MaxParkingSteps} \cup {ParkingMax}
DiningValues == (0..MaxDining) \cup {DiningDefault, DiningMax}
HealthcareValues ==
  {SliderStep * k : k \in 0..MaxHealthcareSteps} \cup {HealthcareDefault, HealthcareMax}
OtherValues == {SliderStep * k : k \in 0..MaxOtherSteps} \cup {OtherMax}
TaxRates == TaxMin..TaxMax

\* housing and transport widgets vary, the rest at their defaults
HousingInputs ==
  { [Defaults EXCEPT !.nbhd = n, !.unit = u, !.style = st, !.transport = t, !.parking = p] :
      n \in OptSet, u \in UnitTypes, st \in StyleIdxs, t \in DOMAIN TRANSPORT,
      p \in ParkingValues }

\* food, healthcare and lifestyle widgets vary
LifestyleInputs ==
  { [Defaults EXCEPT !.style = st, !.dining = d, !.healthcare = h, !.gym = g, !.other = o] :
      st \in StyleIdxs, d \in DiningValues, h \in HealthcareValues,
      g \in DOMAIN LIFESTYLE.gym, o \in OtherValues }

\* every selection of the streaming multiselect
StreamingInputs ==
  { [Defaults EXCEPT !.style = st, !.streaming = S] :
      st \in StyleIdxs, S \in SUBSET DOMAIN LIFESTYLE.streaming }

\* the savings and tax-rate sliders vary over totals of several sizes
IncomeInputs ==
  { [Defaults EXCEPT !.style = st, !.cash = c, !.retirement = r, !.tax = x] :
      st \in StyleIdxs, c \in SavingsOptions, r \in SavingsOptions, x \in TaxRates }

CalcInputs == HousingInputs \cup LifestyleInputs \cup StreamingInputs \cup IncomeInputs

InitCalc ==
  \E a \in CalcInputs :
    /\ WidgetValues(a)
    /\ neighborhood = a.nbhd
    /\ ss_neighborhood = a.nbhd
    /\ ss_map_click = None
    /\ sb_index = IndexOf(nbhd_opts, a.nbhd)
    /\ sb_value = a.nbhd
    /\ map_selection = None
    /\ fig_nbhd = a.nbhd
    /\ pc = "compute"
    /\ NoResults
    /\ last_choice = None
    /\ recorded = None

NextCalc == Compute \/ BuildMapRows

SpecCalc == InitCalc /\ [][NextCalc]_vars

\* compute_expenses has returned in this run
Computed == pc \in {"map_rows", "map_event"}

(***************************************************************************)
(* Properties of the calculation (checked under SpecCalc)                  *)
(***************************************************************************)
\* C1: every line item returned by compute_expenses is >= 0, and the monthly total is
\* the sum of exactly the fourteen returned line items, nothing else contributing.
C1_NonNegativeAndTotal ==
  Computed =>
    /\ DOMAIN expenses = Categories
    /\ \A c \in DOMAIN expenses : expenses[c] >= 0
    /\ total_monthly =
         expenses["Rent"] + expenses["Utilities"] + expenses["Transportation"]
         + expenses["Parking"] + expenses["Groceries"] + expenses["Dining Out"]
         + expenses["Coffee / Cafes"] + expenses["Healthcare"] + expenses["Gym / Fitness"]
         + expenses["Streaming"] + expenses["Entertainment"]
         + expenses["Other Entertainment"] + expenses["Personal Care"] + expenses["Clothing"]

C1_Witness ==
  /\ Computed
  /\ parking = ParkingMax
  /\ transport_choice = "Own Car"
  /\ total_monthly > expenses["Rent"] + parking

\* the Transportation item compute_expenses returns for another neighbourhood and
\* another parking amount, everything else as in this run
TransportationAt(n, p) ==
  compute_expenses(n, unit_type, style_idx, transport_choice, dining_out_frequency,
                   gym_choice, streaming_choices, healthcare, p,
                   other_entertainment)["Transportation"]

Selected(s, cost) == IF s \in streaming_choices THEN cost ELSE 0

\* C5: for every subset of the streaming table's keys the Streaming item is the exact
\* sum of the table costs of the selected services; empty gives 0, all gives the sum
\* of all entries.
C5_StreamingSum ==
  Computed =>
    /\ expenses["Streaming"] =
         Selected("Netflix", 17) + Selected("Spotify", 11) + Selected("Hulu", 18)
         + Selected("Max (HBO)", 16) + Selected("Disney+", 14)
         + Selected("YouTube Premium", 14) + Selected("Apple TV+", 10)
         + Selected("Amazon Prime", 15)
    /\ streaming_choices = {} => expenses["Streaming"] = 0
    /\ streaming_choices = DOMAIN LIFESTYLE.streaming => expenses["Streaming"] = 115

C5_Witness ==
  /\ Computed
  /\ streaming_choices = DOMAIN LIFESTYLE.streaming
  /\ expenses["Streaming"] = 115

\* the Rent compute_expenses returns for another unit type and style in this neighbourhood
RentAt(u, st) ==
  compute_expenses(neighborhood, u, st, transport_choice, dining_out_frequency, gym_choice,
                   streaming_choices, healthcare, parking, other_entertainment)["Rent"]

UnitOrder == <<"studio", "1BR", "2BR">>

\* C6: in every neighbourhood Rent is non-decreasing in spending style for a fixed unit
\* type and non-decreasing in unit size for a fixed style.
C6_RentMonotone ==
  Computed =>
    /\ \A st \in StyleIdxs : st >= style_idx => RentAt(unit_type, st) >= expenses["Rent"]
    /\ \A i \in 1..Len(UnitOrder) :
         i >= IndexOf(UnitOrder, unit_type) + 1 =>
           RentAt(UnitOrder[i], style_idx) >= expenses["Rent"]

C6_Witness ==
  /\ Computed
  /\ neighborhood = "Monona"
  /\ unit_type = "studio"
  /\ style_idx = 0
  /\ RentAt("2BR", 0) > expenses["Rent"]
  /\ RentAt("studio", 2) > expenses["Rent"]

\* the required income of this run with one of its inputs replaced
IncomeAt(cash, retirement, rate) == required_income(total_monthly, cash, retirement, rate)

Grows(a, b) ==
  /\ QLess(a.required_gross_monthly, b.required_gross_monthly)
  /\ QLess(a.required_gross_annual, b.required_gross_annual)

\* C7: the required gross income, monthly and annual, is increasing in the tax rate, in
\* the annual cash savings target and in the annual retirement target, the other inputs
\* fixed, over tax rates 15..30 and savings targets 0..30000 in steps of 5000.
C7_IncomeMonotone ==
  Computed =>
    /\ income.required_gross_annual = QMul(income.required_gross_monthly, Q(12, 1))
    /\ \A x \in TaxRates :
         x > tax_rate => Grows(income, IncomeAt(annual_cash_savings, annual_retirement, x))
    /\ \A c \in SavingsOptions :
         c > annual_cash_savings => Grows(income, IncomeAt(c, annual_retirement, tax_rate))
    /\ \A r \in SavingsOptions :
         r > annual_retirement => Grows(income, IncomeAt(annual_cash_savings, r, tax_rate))

C7_Witness ==
  /\ Computed
  /\ tax_rate = TaxMin
  /\ annual_cash_savings = 0
  /\ annual_retirement = 25000
  /\ Grows(income, IncomeAt(annual_cash_savings, annual_retirement, TaxMax))
  /\ Grows(income, IncomeAt(SavingsMax, annual_retirement, tax_rate))

\* C8: Utilities equals round(electric_gas_avg x utility factor x unit energy factor)
\* + internet + renters_insurance: rounding the energy part alone and adding the flat
\* parts gives what compute_expenses returns.
C8_UtilitiesRounding ==
  Computed =>
    LET nbhd_data == NEIGHBORHOODS[neighborhood]
        factor == IF "utility_factor" \in DOMAIN nbhd_data
                  THEN nbhd_data["utility_factor"] ELSE 100
        energy == CASE unit_type = "studio" -> 80
                    [] unit_type = "1BR" -> 100
                    [] unit_type = "2BR" -> 122
    IN  expenses["Utilities"] =
          round(UTILITIES.electric_gas_avg * factor * energy, 100 * 100)
          + UTILITIES.internet + UTILITIES.renters_insurance

C8_Witness ==
  /\ Computed
  /\ unit_type = "2BR"
  /\ neighborhood = "Middleton"
  /\ expenses["Utilities"] = 202

\* C9: in the comparison every listed neighbourhood's estimated total is its own rent at
\* the selected unit type and style, plus every line item except Rent of the selected
\* neighbourhood's computation, plus its non-rent adjustment (0 when absent).
C9_ComparisonTotals ==
  pc = "map_event" =>
    LET other ==
          expenses["Utilities"] + expenses["Transportation"] + expenses["Parking"]
          + expenses["Groceries"] + expenses["Dining Out"] + expenses["Coffee / Cafes"]
          + expenses["Healthcare"] + expenses["Gym / Fitness"] + expenses["Streaming"]
          + expenses["Entertainment"] + expenses["Other Entertainment"]
          + expenses["Personal Care"] + expenses["Clothing"]
    IN  /\ DOMAIN map_rows = DOMAIN NEIGHBORHOODS \ HIDDEN
        /\ \A n \in DOMAIN map_rows :
             LET adj == IF "non_rent_adj" \in DOMAIN NEIGHBORHOODS[n]
                        THEN NEIGHBORHOODS[n]["non_rent_adj"] ELSE 0
             IN  /\ map_rows[n].rent = NEIGHBORHOODS[n][unit_type][style_idx + 1]
                 /\ map_rows[n].non_rent = other + adj
                 /\ map_rows[n].total = map_rows[n].rent + other + adj

C9_Witness ==
  /\ pc = "map_event"
  /\ neighborhood = "Monona"
  /\ unit_type = "2BR"
  /\ map_rows["Downtown / Capitol Square"].total > total_monthly
  /\ map_rows["Monona"].total = total_monthly

\* the widget values of the worked example
ExampleInputs ==
  /\ neighborhood = "Downtown / Capitol Square"
  /\ unit_type = "1BR"
  /\ style_idx = SPENDING_STYLE_INDEX["Moderate"]
  /\ transport_choice = "Own Car"
  /\ dining_out_frequency = 4
  /\ gym_choice = "None"
  /\ streaming_choices = {"Netflix", "Spotify"}
  /\ healthcare = 150
  /\ parking = 0
  /\ other_entertainment = 0

Cents(q) == round(q.num * 100, q.den)

\* the inputs of the worked income example
IncomeExampleInputs ==
  /\ Computed
  /\ tax_rate = 20
  /\ total_monthly = 2773
  /\ annual_cash_savings = 5000
  /\ annual_retirement = 0

\* C11 as stated: tax rate 20%, total monthly expense 2773, annual cash savings 5000 and
\* annual retirement 0 give netNeeded 3189.67, requiredGrossMonthly 3987.08 and
\* requiredGrossAnnual 47844.96, to the cent.
C11_IncomeExampleAsStated ==
  IncomeExampleInputs =>
    /\ Cents(income.net_needed) = 318967
    /\ Cents(income.required_gross_monthly) = 398708
    /\ Cents(income.required_gross_annual) = 4784496

\* C11 (amended): for these inputs netNeeded is 3189.67 and requiredGrossMonthly 3987.08
\* to the cent, and requiredGrossAnnual, twelve times the unrounded monthly figure, is
\* 47845.00.
C11_IncomeExample ==
  IncomeExampleInputs =>
    /\ Cents(income.net_needed) = 318967
    /\ Cents(income.required_gross_monthly) = 398708
    /\ Cents(income.required_gross_annual) = 4784500

C11_Witness ==
  /\ IncomeExampleInputs
  /\ ExampleInputs
  /\ income.required_gross_annual = Q(47845, 1)

(***************************************************************************)
(* Map click and selector (lines 75-83, 149-156, 398-407)                  *)
(***************************************************************************)
\* the run after a recorded click has applied it when the selector is about to be rendered
ClickAppliedBeforeSelector ==
  (pc = "sidebar" /\ recorded # None) =>
     (ss_neighborhood = recorded /\ ss_map_click = None)

\* the run after a recorded click computed its expenses for the clicked neighbourhood
ClickUsedByCompute ==
  (pc \in {"map_rows", "map_event"} /\ recorded # None) =>
     /\ ss_map_click = None
     /\ neighborhood = recorded
     /\ expenses["Rent"] = NEIGHBORHOODS[recorded][unit_type][style_idx + 1]

AppliedClickIsLatestChoice ==
  (pc = "sidebar" /\ recorded # None) => recorded = last_choice

\* the run that has settled computed its expenses for the user's most recent choice
SettledOnLatestChoice ==
  (pc = "idle" /\ last_choice # None) =>
     /\ neighborhood = last_choice
     /\ ss_neighborhood = last_choice
     /\ expenses["Rent"] = NEIGHBORHOODS[last_choice][unit_type][style_idx + 1]

\* C3: once the reruns triggered by a user action have settled, the neighbourhood used
\* by compute_expenses is the one chosen by the user's most recent action (selector
\* change or map click); a selector change made after a map click is never overwritten
\* by that earlier click's selection still being reported by the map widget.
C3_LastActionWins == AppliedClickIsLatestChoice /\ SettledOnLatestChoice

\* C12: in every reachable state of the session, where the selector is rendered
\* session_state.neighborhood is a key of NEIGHBORHOODS outside the hidden set, so the
\* lookup of its index in the selector options never fails; and _map_click is None
\* whenever compute_expenses runs.
C12_SelectorLookupSafe ==
  /\ pc = "sidebar" =>
       /\ ss_neighborhood \in DOMAIN NEIGHBORHOODS \ HIDDEN
       /\ \E i \in 1..Len(nbhd_opts) : nbhd_opts[i] = ss_neighborhood
  /\ pc # "error"
  /\ pc = "compute" => ss_map_click = None

\* a run that applied a recorded click reaches compute_expenses
C12_Witness ==
  /\ pc = "compute"
  /\ recorded # None
  /\ recorded # NbhdOrder[1]
  /\ ss_map_click = None
  /\ ss_neighborhood = recorded

====
